---- MODULE Spec2Model ----
(***************************************************************************)
(* Model of vs/workbench/parts/preferences/browser/preferencesActions.ts   *)
(*                                                                         *)
(* Part I   : the availability-gated actions (OpenWorkspaceSettingsAction, *)
(*            OpenFolderSettingsAction): construction, update, dispose,    *)
(*            driven by the workspace context service's notifications.     *)
(* Part II  : the run() promise chains of all six actions.                 *)
(* Part III : the pick list ConfigureLanguageBasedSettingsAction builds.   *)
(***************************************************************************)
EXTENDS Integers, Sequences, FiniteSets, TLC

\* ------------------------------------------------------------------ bounds
MaxFolders == 2
MaxDisposeCalls == 2
MaxLangs == 3

\* ------------------------------------------------------- generic helpers
Range(s) == {s[i] : i \in 1..Len(s)}

InjectiveSeqs(S, n) ==
  UNION {{s \in [1..k -> S] : \A i, j \in 1..k : s[i] = s[j] => i = j} : k \in 0..n}

\* ============================ Part I ====================================
VARIABLES
  wbState,        \* workspaceContextService.getWorkbenchState()
  folders,        \* workspaceContextService.getWorkspace().folders
  pendingEvents,  \* change events the service has still to fire
  listeners,      \* listeners[ev] : actions whose callback is registered on ev
  lifecycle,      \* per action: "absent", "live" (constructed), "disposed"
  enabled,        \* per action: Action.enabled
  disposables,    \* per action: this.disposables (subscription handles)
  released,       \* per handle: number of dispose() calls it has received
  disposeCalls,   \* per action: number of dispose() calls made on it
  superDisposed,  \* per action: number of times Action.dispose (super) ran
  lastStep,       \* the operation that produced this state, and the update() calls it made
  \* --- Part II / III
  languageNames,  \* modeService.getRegisteredLanguageNames()
  extensionsOf,   \* modeService.getExtensions(name), per registered name
  filenamesOf,    \* modeService.getFilenames(name), per registered name
  running,        \* the action whose run() is in progress, or "none"
  pc,             \* the promise the run is waiting on
  picks,          \* the entries run() handed to quickOpenService.pick
  trace,          \* collaborator calls and their settlements, in order
  result          \* the promise run() returned: pending, resolved or rejected

availVars == <<wbState, folders, pendingEvents, listeners, lifecycle, enabled,
               disposables, released, disposeCalls, superDisposed, lastStep>>

runVars == <<languageNames, extensionsOf, filenamesOf, running, pc, picks, trace, result>>

vars == <<availVars, runVars>>

\* WorkbenchState enumeration
EMPTY == "EMPTY"
FOLDER == "FOLDER"
WORKSPACE == "WORKSPACE"
WorkbenchState == {EMPTY, FOLDER, WORKSPACE}

FolderPool == {"folderA", "folderB", "folderC"}

\* The two availability-gated action instances
WS == "OpenWorkspaceSettingsAction"
FS == "OpenFolderSettingsAction"
GatedActions == {WS, FS}

\* The service's two events
StateEvent == "onDidChangeWorkbenchState"
FoldersEvent == "onDidChangeWorkspaceFolders"
Events == {StateEvent, FoldersEvent}

\* A subscription handle (the IDisposable an event registration pushes)
Handles == [event : Events, owner : GatedActions]

\* Topologies the workspace service can be in: no folder, one folder, or a
\* multi-root workspace with any number of folders (possibly none).
ConsistentTopology(s, fs) ==
  /\ (s = EMPTY => Len(fs) = 0)
  /\ (s = FOLDER => Len(fs) = 1)

Topologies ==
  {t \in [state : WorkbenchState, folders : InjectiveSeqs(FolderPool, MaxFolders)] :
     ConsistentTopology(t.state, t.folders)}

\* OpenWorkspaceSettingsAction.update: the value assigned to this.enabled
OpenWorkspaceSettingsAction_update_NoFolder(s, fs) == s = WORKSPACE
OpenWorkspaceSettingsAction_update(s, fs) == s # EMPTY

\* OpenFolderSettingsAction.update: the value assigned to this.enabled
OpenFolderSettingsAction_update_NonEmpty(s, fs) == s # EMPTY /\ Len(fs) > 0
OpenFolderSettingsAction_update(s, fs) == s = WORKSPACE /\ Len(fs) > 0

update(a, s, fs) ==
  IF a = WS THEN OpenWorkspaceSettingsAction_update(s, fs)
            ELSE OpenFolderSettingsAction_update(s, fs)

\* The events each constructor subscribes to, in order
OpenWorkspaceSettingsAction_subscriptions == <<StateEvent>>

OpenFolderSettingsAction_subscriptions == <<StateEvent, FoldersEvent>>

subscriptions(a) ==
  IF a = WS THEN OpenWorkspaceSettingsAction_subscriptions
            ELSE OpenFolderSettingsAction_subscriptions

NoUpdates == [a \in GatedActions |-> 0]

\* constructor: super(id, label); this.update(); subscribe (handles pushed to this.disposables)
Construct(a) ==
  /\ lifecycle[a] = "absent"
  /\ lifecycle' = [lifecycle EXCEPT ![a] = "live"]
  /\ enabled' = [enabled EXCEPT ![a] = update(a, wbState, folders)]
  /\ listeners' = [ev \in Events |->
                     IF ev \in Range(subscriptions(a)) THEN listeners[ev] \cup {a}
                                                       ELSE listeners[ev]]
  /\ disposables' = [disposables EXCEPT ![a] =
                       [i \in 1..Len(subscriptions(a)) |->
                          [event |-> subscriptions(a)[i], owner |-> a]]]
  /\ lastStep' = [op |-> "construct", who |-> a,
                  updates |-> [NoUpdates EXCEPT ![a] = 1]]
  /\ UNCHANGED <<wbState, folders, pendingEvents, released, disposeCalls, superDisposed>>

\* dispose(): this.disposables = dispose(this.disposables); super.dispose();
\*   release : the handles whose dispose() is called
\*   keep    : the new value of this.disposables
\*   super   : number of Action.dispose calls
\* lifecycle.dispose(array): disposes every element and returns an empty array
dispose(ds) == [disposed |-> ds, returned |-> <<>>]

DisposeEffect_NoReassign(ds) ==
  [release |-> dispose(ds).disposed, keep |-> ds, super |-> 1]
DisposeEffect_NoRelease(ds) ==
  [release |-> <<>>, keep |-> dispose(<<>>).returned, super |-> 1]
DisposeEffect(ds) ==
  [release |-> dispose(ds).disposed, keep |-> dispose(ds).returned, super |-> 1]

Dispose(a) ==
  /\ lifecycle[a] \in {"live", "disposed"}
  /\ disposeCalls[a] < MaxDisposeCalls
  /\ LET eff == DisposeEffect(disposables[a])
         rel == Range(eff.release)
     IN /\ released' = [h \in Handles |-> IF h \in rel THEN released[h] + 1 ELSE released[h]]
        /\ listeners' = [ev \in Events |->
                           listeners[ev] \ {h.owner : h \in {x \in rel : x.event = ev}}]
        /\ disposables' = [disposables EXCEPT ![a] = eff.keep]
        /\ superDisposed' = [superDisposed EXCEPT ![a] = @ + eff.super]
  /\ disposeCalls' = [disposeCalls EXCEPT ![a] = @ + 1]
  /\ lifecycle' = [lifecycle EXCEPT ![a] = "disposed"]
  /\ lastStep' = [op |-> "dispose", who |-> a, updates |-> NoUpdates]
  /\ UNCHANGED <<wbState, folders, pendingEvents, enabled>>

\* The workspace service moves to another topology; it owes one notification
\* per thing that changed.
ServiceChange ==
  /\ pendingEvents = {}
  /\ \E t \in Topologies :
       /\ <<t.state, t.folders>> # <<wbState, folders>>
       /\ wbState' = t.state
       /\ folders' = t.folders
       /\ pendingEvents' = (IF t.state # wbState THEN {StateEvent} ELSE {})
                           \cup (IF t.folders # folders THEN {FoldersEvent} ELSE {})
  /\ lastStep' = [op |-> "change", who |-> "service", updates |-> NoUpdates]
  /\ UNCHANGED <<listeners, lifecycle, enabled, disposables, released,
                 disposeCalls, superDisposed>>

\* The service fires one event: every registered listener runs () => this.update()
Fire(ev) ==
  /\ ev \in pendingEvents
  /\ pendingEvents' = pendingEvents \ {ev}
  /\ enabled' = [a \in GatedActions |->
                   IF a \in listeners[ev] THEN update(a, wbState, folders) ELSE enabled[a]]
  /\ lastStep' = [op |-> "fire", who |-> ev,
                  updates |-> [a \in GatedActions |-> IF a \in listeners[ev] THEN 1 ELSE 0]]
  /\ UNCHANGED <<wbState, folders, listeners, lifecycle, disposables, released,
                 disposeCalls, superDisposed>>


\* ============================ Part II / III =============================
\* Strings that the code inspects are sequences of UTF-16 code units.
NameC == <<67>>
NameCSS == <<67, 83, 83>>
NameGo == <<71, 111>>
NameTypeScript == <<84, 121, 112, 101, 83, 99, 114, 105, 112, 116>>
NamePool == {NameC, NameCSS, NameGo, NameTypeScript}

ExtTs == <<46, 116, 115>>
ExtTsx == <<46, 116, 115, 120>>
FileMakefile == <<77, 97, 107, 101, 102, 105, 108, 101>>

\* JavaScript's absent values
Null == [tag |-> "null"]
Undefined == [tag |-> "undefined"]
Falsy == {Null, Undefined}

\* What getExtensions / getFilenames may return for a name
List(items) == [tag |-> "list", items |-> items]
ExtOptions == {Undefined, List(<<>>), List(<<ExtTs, ExtTsx>>)}
FileOptions == {Undefined, List(<<>>), List(<<FileMakefile>>)}

Errors == {"errA", "errB"}

\* String.prototype.toLowerCase on the code units used here (A-Z -> a-z)
toLowerCase(str) ==
  [i \in 1..Len(str) |-> IF str[i] >= 65 /\ str[i] <= 90 THEN str[i] + 32 ELSE str[i]]

\* modeService.getModeIdForLanguageName(lower-cased name)
getModeIdForLanguageName(lower) ==
  CASE lower = toLowerCase(NameC) -> "c"
    [] lower = toLowerCase(NameCSS) -> "css"
    [] lower = toLowerCase(NameGo) -> "go"
    [] lower = toLowerCase(NameTypeScript) -> "typescript"
    [] OTHER -> "null"

\* URI.file(path): a file URI whose path starts with a slash
URI_file(path) ==
  [scheme |-> "file",
   path |-> IF Len(path) > 0 /\ path[1] = 47 THEN path ELSE <<47>> \o path]

\* The comparison Array.prototype.sort() uses without a comparator: x < y by
\* code units (first differing unit decides; a proper prefix comes first).
StringLess(x, y) ==
  \E k \in 1..Len(y) :
    /\ k <= Len(x) + 1
    /\ \A i \in 1..(k - 1) : x[i] = y[i]
    /\ IF k = Len(x) + 1 THEN TRUE ELSE x[k] < y[k]

RECURSIVE insertSorted(_, _)
insertSorted(x, s) ==
  IF s = <<>> THEN <<x>>
  ELSE IF StringLess(x, Head(s)) THEN <<x>> \o s
  ELSE <<Head(s)>> \o insertSorted(x, Tail(s))

RECURSIVE sortFrom(_, _)
sortFrom(s, acc) ==
  IF s = <<>> THEN acc ELSE sortFrom(Tail(s), insertSorted(Head(s), acc))

\* languages.sort()
sort_Unsorted(languages) == languages
sort(languages) == sortFrom(languages, <<>>)

\* a value that is truthy and has a truthy length
NonEmptyList(v) == v.tag = "list" /\ Len(v.items) > 0

\* lines 166-175: the fake resource of one entry
fakeResource_FilenamesFirst(extensions, filenames) ==
  IF NonEmptyList(filenames) THEN URI_file(filenames.items[1])
  ELSE IF NonEmptyList(extensions) THEN URI_file(extensions.items[1])
  ELSE Undefined
fakeResource(extensions, filenames) ==
  IF NonEmptyList(extensions) THEN URI_file(extensions.items[1])
  ELSE IF NonEmptyList(filenames) THEN URI_file(filenames.items[1])
  ELSE Undefined

\* lines 163-181: the map callback
pickEntry(lang) ==
  [label |-> lang,
   resource |-> fakeResource(extensionsOf[lang], filenamesOf[lang]),
   description |-> <<"(", getModeIdForLanguageName(toLowerCase(lang)), ")">>]

buildPicks(languages) ==
  LET sorted == sort(languages)
  IN [i \in 1..Len(sorted) |-> pickEntry(sorted[i])]

\* ---- the six actions and the collaborator operations their run() awaits
OpenGlobalSettingsAction == "OpenGlobalSettingsAction"
OpenGlobalKeybindingsAction == "OpenGlobalKeybindingsAction"
OpenGlobalKeybindingsFileAction == "OpenGlobalKeybindingsFileAction"
ConfigureLanguageBasedSettingsAction == "ConfigureLanguageBasedSettingsAction"
Openers == {OpenGlobalSettingsAction, OpenGlobalKeybindingsAction,
            OpenGlobalKeybindingsFileAction, WS}

PICK_WORKSPACE_FOLDER_COMMAND == "_workbench.pickWorkspaceFolder"

Call(op, arg) == [kind |-> "call", op |-> op, val |-> arg]
Resolved(op, v) == [kind |-> "resolve", op |-> op, val |-> v]
Rejected(op, e) == [kind |-> "reject", op |-> op, val |-> e]

Pending == [status |-> "pending", val |-> Undefined]

\* run() of the four plain openers: the delegate that is called
openerCall(a) ==
  CASE a = OpenGlobalSettingsAction -> Call("openGlobalSettings", Undefined)
    [] a = OpenGlobalKeybindingsAction -> Call("openGlobalKeybindingSettings", FALSE)
    [] a = OpenGlobalKeybindingsFileAction -> Call("openGlobalKeybindingSettings", TRUE)
    [] a = WS -> Call("openWorkspaceSettings", Undefined)

\* What a promise returned by a collaborator can settle to
Editor == [tag |-> "editor"]
Outcomes(values) ==
  [status : {"resolved"}, val : values] \cup [status : {"rejected"}, val : Errors]

SettleEvent(op, o) ==
  IF o.status = "resolved" THEN Resolved(op, o.val) ELSE Rejected(op, o.val)

\* A promise chained with .then(callback) and no error callback: a rejection
\* of the awaited promise becomes the rejection of the chain.
thenRejected_Swallow(err) == [status |-> "resolved", val |-> Undefined]
thenRejected(err) == [status |-> "rejected", val |-> err]

RunOpener ==
  /\ pc = "idle"
  /\ \E a \in Openers :
       /\ running' = a
       /\ trace' = <<openerCall(a)>>
  /\ pc' = "awaitOpen"
  /\ UNCHANGED <<languageNames, extensionsOf, filenamesOf, picks, result, availVars>>

\* the opener returned the delegate's promise itself
OpenSettles ==
  /\ pc = "awaitOpen"
  /\ \E o \in Outcomes({Editor, Null}) :
       /\ trace' = Append(trace, SettleEvent(trace[1].op, o))
       /\ result' = o
  /\ pc' = "done"
  /\ UNCHANGED <<languageNames, extensionsOf, filenamesOf, running, picks, availVars>>

\* ---- OpenFolderSettingsAction.run
WorkspaceFolder(f) == [tag |-> "folder", name |-> f, uri |-> <<"file", f>>]

RunOpenFolderSettings ==
  /\ pc = "idle"
  /\ running' = FS
  /\ trace' = <<Call("executeCommand", PICK_WORKSPACE_FOLDER_COMMAND)>>
  /\ pc' = "awaitPickFolder"
  /\ UNCHANGED <<languageNames, extensionsOf, filenamesOf, picks, result, availVars>>

\* lines 132-137: the callback given the command's result; what it returns
thenPickFolder_NoGuard(workspaceFolder) ==
  [delegate |-> TRUE,
   arg |-> IF workspaceFolder \in Falsy THEN Undefined ELSE workspaceFolder.uri]
thenPickFolder(workspaceFolder) ==
  IF workspaceFolder \notin Falsy
  THEN [delegate |-> TRUE, arg |-> workspaceFolder.uri]
  ELSE [delegate |-> FALSE, value |-> Null]

PickFolderSettles ==
  /\ pc = "awaitPickFolder"
  /\ \E o \in Outcomes({WorkspaceFolder(f) : f \in FolderPool} \cup Falsy) :
       LET ev == SettleEvent("executeCommand", o) IN
       IF o.status = "rejected"
       THEN /\ trace' = Append(trace, ev)
            /\ result' = thenRejected(o.val)
            /\ pc' = "done"
       ELSE LET r == thenPickFolder(o.val) IN
            IF r.delegate
            THEN /\ trace' = trace \o <<ev, Call("openFolderSettings", r.arg)>>
                 /\ result' = result
                 /\ pc' = "awaitOpenFolder"
            ELSE /\ trace' = Append(trace, ev)
                 /\ result' = [status |-> "resolved", val |-> r.value]
                 /\ pc' = "done"
  /\ UNCHANGED <<languageNames, extensionsOf, filenamesOf, running, picks, availVars>>

OpenFolderSettles ==
  /\ pc = "awaitOpenFolder"
  /\ \E o \in Outcomes({Editor, Null}) :
       /\ trace' = Append(trace, SettleEvent("openFolderSettings", o))
       /\ result' = IF o.status = "rejected" THEN thenRejected(o.val) ELSE o
  /\ pc' = "done"
  /\ UNCHANGED <<languageNames, extensionsOf, filenamesOf, running, picks, availVars>>

\* ---- ConfigureLanguageBasedSettingsAction.run
\* lines 162-183: build the entries and show the picker
RunConfigureLanguage ==
  /\ pc = "idle"
  /\ running' = ConfigureLanguageBasedSettingsAction
  /\ picks' = buildPicks(languageNames)
  /\ trace' = <<Call("pick", buildPicks(languageNames))>>
  /\ pc' = "awaitQuickPick"
  /\ UNCHANGED <<languageNames, extensionsOf, filenamesOf, result, availVars>>

\* lines 184-190: the callback given the picker's result
thenPick_NoGuard(pick) ==
  [delegate |-> TRUE, arg |-> IF pick \in Falsy THEN Undefined ELSE pick.label]
thenPick(pick) ==
  IF pick \notin Falsy
  THEN [delegate |-> TRUE, arg |-> pick.label]
  ELSE [delegate |-> FALSE, value |-> Undefined]

QuickPickSettles ==
  /\ pc = "awaitQuickPick"
  /\ \E o \in Outcomes(Range(picks) \cup Falsy) :
       LET ev == SettleEvent("pick", o) IN
       IF o.status = "rejected"
       THEN /\ trace' = Append(trace, ev)
            /\ result' = thenRejected(o.val)
            /\ pc' = "done"
       ELSE LET r == thenPick(o.val) IN
            IF r.delegate
            THEN /\ trace' = trace \o <<ev, Call("getOrCreateModeByLanguageName", r.arg)>>
                 /\ result' = result
                 /\ pc' = "awaitMode"
            ELSE /\ trace' = Append(trace, ev)
                 /\ result' = [status |-> "resolved", val |-> r.value]
                 /\ pc' = "done"
  /\ UNCHANGED <<languageNames, extensionsOf, filenamesOf, running, picks, availVars>>

\* The modes getOrCreateModeByLanguageName can resolve to
Mode(language, id) == [tag |-> "mode", languageIdentifier |-> [language |-> language, id |-> id]]
Modes == {Mode("typescript", "LanguageId#7"), Mode("go", "LanguageId#9")}

\* line 187: the argument handed to configureSettingsForLanguage
thenMode_NumericId(mode) == mode.languageIdentifier.id
thenMode(mode) == mode.languageIdentifier.language

ModeSettles ==
  /\ pc = "awaitMode"
  /\ \E o \in Outcomes(Modes) :
       LET ev == SettleEvent("getOrCreateModeByLanguageName", o) IN
       IF o.status = "rejected"
       THEN /\ trace' = Append(trace, ev)
            /\ result' = thenRejected(o.val)
            /\ pc' = "done"
       ELSE /\ trace' = trace \o <<ev, Call("configureSettingsForLanguage", thenMode(o.val))>>
            /\ result' = result
            /\ pc' = "awaitConfigure"
  /\ UNCHANGED <<languageNames, extensionsOf, filenamesOf, running, picks, availVars>>

ConfigureSettles ==
  /\ pc = "awaitConfigure"
  /\ \E o \in Outcomes({Editor, Null}) :
       /\ trace' = Append(trace, SettleEvent("configureSettingsForLanguage", o))
       /\ result' = IF o.status = "rejected" THEN thenRejected(o.val) ELSE o
  /\ pc' = "done"
  /\ UNCHANGED <<languageNames, extensionsOf, filenamesOf, running, picks, availVars>>

\* ============================ specifications ============================
AvailIdle ==
  /\ wbState = EMPTY
  /\ folders = <<>>
  /\ pendingEvents = {}
  /\ listeners = [ev \in Events |-> {}]
  /\ lifecycle = [a \in GatedActions |-> "absent"]
  /\ enabled = [a \in GatedActions |-> TRUE]
  /\ disposables = [a \in GatedActions |-> <<>>]
  /\ released = [h \in Handles |-> 0]
  /\ disposeCalls = [a \in GatedActions |-> 0]
  /\ superDisposed = [a \in GatedActions |-> 0]
  /\ lastStep = [op |-> "init", who |-> "none", updates |-> NoUpdates]

RunIdle ==
  /\ running = "none"
  /\ pc = "idle"
  /\ picks = <<>>
  /\ trace = <<>>
  /\ result = Pending

\* The registry used where the claims are about the promise chain only
DefaultRegistry == <<NameTypeScript, NameC, NameGo>>
DefaultExtensions(n) == IF n = NameTypeScript THEN List(<<ExtTs, ExtTsx>>) ELSE List(<<>>)
DefaultFilenames(n) == IF n = NameGo THEN List(<<FileMakefile>>) ELSE List(<<>>)

InitAvail ==
  /\ \E t \in Topologies : wbState = t.state /\ folders = t.folders
  /\ pendingEvents = {}
  /\ listeners = [ev \in Events |-> {}]
  /\ lifecycle = [a \in GatedActions |-> "absent"]
  /\ enabled = [a \in GatedActions |-> TRUE]
  /\ disposables = [a \in GatedActions |-> <<>>]
  /\ released = [h \in Handles |-> 0]
  /\ disposeCalls = [a \in GatedActions |-> 0]
  /\ superDisposed = [a \in GatedActions |-> 0]
  /\ lastStep = [op |-> "init", who |-> "none", updates |-> NoUpdates]
  /\ RunIdle
  /\ languageNames = <<>>
  /\ extensionsOf = <<>>
  /\ filenamesOf = <<>>

ConstructWorkspaceAction == Construct(WS) /\ UNCHANGED runVars
ConstructFolderAction == Construct(FS) /\ UNCHANGED runVars
DisposeWorkspaceAction == Dispose(WS) /\ UNCHANGED runVars
DisposeFolderAction == Dispose(FS) /\ UNCHANGED runVars
ChangeTopology == ServiceChange /\ UNCHANGED runVars
FireWorkbenchState == Fire(StateEvent) /\ UNCHANGED runVars
FireWorkspaceFolders == Fire(FoldersEvent) /\ UNCHANGED runVars

NextAvail ==
  \/ ConstructWorkspaceAction
  \/ ConstructFolderAction
  \/ DisposeWorkspaceAction
  \/ DisposeFolderAction
  \/ ChangeTopology
  \/ FireWorkbenchState
  \/ FireWorkspaceFolders

SpecAvail == InitAvail /\ [][NextAvail]_vars

InitRun ==
  /\ AvailIdle
  /\ RunIdle
  /\ \E n \in 0..Len(DefaultRegistry) : languageNames = SubSeq(DefaultRegistry, 1, n)
  /\ extensionsOf = [n \in Range(languageNames) |-> DefaultExtensions(n)]
  /\ filenamesOf = [n \in Range(languageNames) |-> DefaultFilenames(n)]

NextRun ==
  \/ RunOpener
  \/ OpenSettles
  \/ RunOpenFolderSettings
  \/ PickFolderSettles
  \/ OpenFolderSettles
  \/ RunConfigureLanguage
  \/ QuickPickSettles
  \/ ModeSettles
  \/ ConfigureSettles

SpecRun == InitRun /\ [][NextRun]_vars

\* Every registry of up to MaxLangs distinct names, with every combination of
\* extension and filename lists
InitPicks ==
  /\ AvailIdle
  /\ RunIdle
  /\ languageNames \in InjectiveSeqs(NamePool, MaxLangs)
  /\ extensionsOf \in [Range(languageNames) -> ExtOptions]
  /\ filenamesOf \in [Range(languageNames) -> FileOptions]

NextPicks == RunConfigureLanguage

SpecPicks == InitPicks /\ [][NextPicks]_vars

\* ======================= Part I : claims ================================
AfterConstruct(a) == lastStep.op = "construct" /\ lastStep.who = a
AfterFire(ev) == lastStep.op = "fire" /\ lastStep.who = ev

\* C1: right after OpenWorkspaceSettingsAction is constructed, and right after
\* every workbench-state-change notification delivered while it is not
\* disposed, enabled is TRUE exactly when the workbench state is not EMPTY,
\* and that step ran update() exactly once.
C1_WorkspaceEnabledTracksState ==
  (AfterConstruct(WS) \/ (AfterFire(StateEvent) /\ lifecycle[WS] = "live"))
    => /\ enabled[WS] = (wbState # EMPTY)
       /\ lastStep.updates[WS] = 1

C1_Witness ==
  /\ AfterFire(StateEvent)
  /\ lifecycle[WS] = "live"
  /\ wbState = FOLDER
  /\ enabled[WS]

\* C2: right after OpenFolderSettingsAction is constructed, and right after
\* every workbench-state-change or workspace-folders-change notification
\* delivered while it is not disposed, enabled is TRUE exactly when the
\* workbench state is WORKSPACE and the workspace has at least one folder.
C2_FolderEnabledTracksTopology ==
  (AfterConstruct(FS) \/ (lastStep.op = "fire" /\ lifecycle[FS] = "live"))
    => /\ enabled[FS] = (wbState = WORKSPACE /\ Len(folders) > 0)
       /\ lastStep.updates[FS] = 1

C2_Witness ==
  /\ AfterFire(FoldersEvent)
  /\ lifecycle[FS] = "live"
  /\ wbState = FOLDER
  /\ Len(folders) = 1
  /\ ~enabled[FS]

HandlesOf(a) == {h \in Handles : h.owner = a}

\* C7: no subscription handle is ever released more than once, however often
\* dispose is called; once dispose has been called, every subscription made
\* at construction (one for the workspace action, two for the folder action)
\* has been released exactly once.
C7_DisposeReleasesOnce ==
  /\ \A h \in Handles : released[h] <= 1
  /\ disposeCalls[WS] >= 1 =>
       Cardinality({h \in HandlesOf(WS) : released[h] = 1}) = 1
  /\ disposeCalls[FS] >= 1 =>
       Cardinality({h \in HandlesOf(FS) : released[h] = 1}) = 2

C7_Witness ==
  /\ disposeCalls[WS] >= 2
  /\ disposeCalls[FS] >= 2
  /\ released[[event |-> FoldersEvent, owner |-> FS]] = 1

DisposedQuiet(a) ==
  lifecycle[a] = "disposed" =>
    /\ \A ev \in Events : a \notin listeners[ev]
    /\ disposables[a] = <<>>
    /\ lastStep.updates[a] = 0

\* C9: a disposed action holds no live subscription, no later notification
\* runs its update() or changes its enabled flag, and every dispose call has
\* run the inherited Action.dispose.
C9_NoUpdateAfterDispose ==
  /\ [](\A a \in GatedActions : DisposedQuiet(a) /\ superDisposed[a] = disposeCalls[a])
  /\ [][\A a \in GatedActions : lifecycle[a] = "disposed" => enabled'[a] = enabled[a]]_vars

C9_Witness ==
  /\ lifecycle[WS] = "disposed"
  /\ lifecycle[FS] = "disposed"
  /\ disposeCalls[FS] >= 2
  /\ lastStep.op = "fire"
  /\ enabled[WS] # (wbState # EMPTY)
  /\ enabled[FS] # (wbState = WORKSPACE /\ Len(folders) > 0)

\* ======================= Part II : claims ===============================
CallsOf(op) == {i \in 1..Len(trace) : trace[i].kind = "call" /\ trace[i].op = op}
ResolvesOf(op) == {i \in 1..Len(trace) : trace[i].kind = "resolve" /\ trace[i].op = op}
Rejects == {i \in 1..Len(trace) : trace[i].kind = "reject"}

NoEffect(value) ==
  /\ pc = "done"
  /\ result = [status |-> "resolved", val |-> value]
  /\ Len(trace) = 2

\* C3: a run of OpenFolderSettingsAction starts with the pick-workspace-folder
\* command; once the command has resolved, openFolderSettings has not been
\* invoked exactly when it resolved to none (the run is then complete with
\* no effect); otherwise it has been invoked exactly once, right after the
\* command resolved, with the chosen folder's uri.
C3_FolderPickGatesOpen ==
  running = FS =>
    /\ trace[1] = Call("executeCommand", PICK_WORKSPACE_FOLDER_COMMAND)
    /\ CallsOf("executeCommand") = {1}
    /\ \A i \in CallsOf("openFolderSettings") : 2 \in ResolvesOf("executeCommand")
    /\ 2 \in ResolvesOf("executeCommand") =>
         /\ (CallsOf("openFolderSettings") = {}) <=> (trace[2].val \in Falsy)
         /\ trace[2].val \in Falsy => NoEffect(Null)
         /\ trace[2].val \notin Falsy =>
              /\ CallsOf("openFolderSettings") = {3}
              /\ trace[3].val = trace[2].val.uri

C3_Witness ==
  /\ running = FS
  /\ pc = "done"
  /\ trace[2] = Resolved("executeCommand", WorkspaceFolder("folderB"))
  /\ trace[3] = Call("openFolderSettings", <<"file", "folderB">>)
  /\ result.status = "resolved"

\* C4: when the quick-pick of ConfigureLanguageBasedSettingsAction resolves
\* to no selection, neither getOrCreateModeByLanguageName nor
\* configureSettingsForLanguage is invoked and the run completes with no
\* effect.
C4_CancelInvokesNothing ==
  (running = ConfigureLanguageBasedSettingsAction
     /\ 2 \in ResolvesOf("pick") /\ trace[2].val \in Falsy)
    => /\ CallsOf("getOrCreateModeByLanguageName") = {}
       /\ CallsOf("configureSettingsForLanguage") = {}
       /\ NoEffect(Undefined)

C4_Witness ==
  /\ running = ConfigureLanguageBasedSettingsAction
  /\ pc = "done"
  /\ Len(picks) = 3
  /\ trace[2] = Resolved("pick", Null)
  /\ result = [status |-> "resolved", val |-> Undefined]

\* C8: in a run of ConfigureLanguageBasedSettingsAction the mode is requested
\* only after the picker resolved to an entry, for that entry's label;
\* configureSettingsForLanguage is invoked only after the mode resolved, at
\* most once, with that mode's language identifier; and once the mode has
\* resolved it has been invoked exactly once.
C8_ConfigureAfterModeResolved ==
  running = ConfigureLanguageBasedSettingsAction =>
    /\ \A i \in CallsOf("getOrCreateModeByLanguageName") :
         /\ i = 3
         /\ 2 \in ResolvesOf("pick")
         /\ trace[2].val \in Range(picks)
         /\ trace[3].val = trace[2].val.label
    /\ \A i \in CallsOf("configureSettingsForLanguage") :
         /\ i = 5
         /\ 4 \in ResolvesOf("getOrCreateModeByLanguageName")
         /\ trace[5].val = trace[4].val.languageIdentifier.language
    /\ (2 \in ResolvesOf("pick") /\ trace[2].val \notin Falsy)
         => CallsOf("getOrCreateModeByLanguageName") = {3}
    /\ ResolvesOf("getOrCreateModeByLanguageName") # {}
         => CallsOf("configureSettingsForLanguage") = {5}

C8_Witness ==
  /\ running = ConfigureLanguageBasedSettingsAction
  /\ pc = "done"
  /\ trace[2].kind = "resolve"
  /\ trace[2].val \notin Falsy
  /\ trace[2].val.label = NameTypeScript
  /\ trace[3] = Call("getOrCreateModeByLanguageName", NameTypeScript)
  /\ trace[4] = Resolved("getOrCreateModeByLanguageName", Mode("go", "LanguageId#9"))
  /\ trace[5] = Call("configureSettingsForLanguage", "go")
  /\ result.status = "resolved"

\* C10: in every run, when an awaited collaborator operation fails, nothing
\* is invoked after it, the run is complete, its result is that same failure,
\* and no operation is invoked twice.
C10_FailurePropagatesUnmodified ==
  /\ \A i \in Rejects :
       /\ i = Len(trace)
       /\ pc = "done"
       /\ result.status = "rejected"
       /\ result.val = trace[i].val
  /\ \A i, j \in 1..Len(trace) :
       (i < j /\ trace[i].kind = "call" /\ trace[j].kind = "call")
         => trace[i].op # trace[j].op
  /\ result.status = "rejected" => Rejects # {}

C10_Witness ==
  /\ running = ConfigureLanguageBasedSettingsAction
  /\ trace[Len(trace)] = Rejected("getOrCreateModeByLanguageName", "errB")
  /\ CallsOf("configureSettingsForLanguage") = {}
  /\ result = [status |-> "rejected", val |-> "errB"]

\* ======================= Part III : claims ==============================
Labels == [i \in 1..Len(picks) |-> picks[i].label]

\* Lexicographic order on strings: the first unit decides, a string whose
\* units run out first comes first.
RECURSIVE LexLess(_, _)
LexLess(x, y) ==
  IF y = <<>> THEN FALSE
  ELSE IF x = <<>> THEN TRUE
  ELSE IF Head(x) # Head(y) THEN Head(x) < Head(y)
  ELSE LexLess(Tail(x), Tail(y))

PickerShown == pc = "awaitQuickPick" /\ running = ConfigureLanguageBasedSettingsAction

\* C5: the entries handed to the picker are one per registered language
\* name, and their labels are in ascending lexicographic order.
C5_PicksSortedOnePerName ==
  PickerShown =>
    /\ Len(picks) = Len(languageNames)
    /\ Range(Labels) = Range(languageNames)
    /\ \A i, j \in 1..Len(picks) : i < j => LexLess(picks[i].label, picks[j].label)
    /\ trace[1] = Call("pick", picks)

C5_Witness ==
  /\ PickerShown
  /\ languageNames = <<NameTypeScript, NameC, NameGo>>
  /\ Labels = <<NameC, NameGo, NameTypeScript>>

\* C6: an entry's resource is the file URI of the language's first extension
\* when it has extensions; otherwise of its first filename when it has
\* filenames; otherwise the entry has no resource.
C6_ResourceFromFirstExtensionThenFilename ==
  PickerShown =>
    \A i \in 1..Len(picks) :
      LET e == extensionsOf[picks[i].label]
          f == filenamesOf[picks[i].label]
          hasExt == e # Undefined /\ e.items # <<>>
          hasFile == f # Undefined /\ f.items # <<>>
      IN /\ hasExt => picks[i].resource = URI_file(Head(e.items))
         /\ (~hasExt /\ hasFile) => picks[i].resource = URI_file(Head(f.items))
         /\ (~hasExt /\ ~hasFile) => picks[i].resource = Undefined

C6_Witness ==
  /\ PickerShown
  /\ Len(picks) = 3
  /\ extensionsOf[picks[1].label] = List(<<ExtTs, ExtTsx>>)
  /\ filenamesOf[picks[1].label] = List(<<FileMakefile>>)
  /\ picks[1].resource.path = <<47>> \o ExtTs
  /\ extensionsOf[picks[2].label] = List(<<>>)
  /\ filenamesOf[picks[2].label] = List(<<FileMakefile>>)
  /\ picks[2].resource.path = <<47>> \o FileMakefile
  /\ extensionsOf[picks[3].label] = Undefined
  /\ filenamesOf[picks[3].label] = Undefined
  /\ picks[3].resource = Undefined
====
